---- MODULE Spec2Model ----
(***************************************************************************)
(* State-machine model of the rustyboy memory bus (src/src/mmu.rs) and      *)
(* pixel engine (src/src/gpu.rs), and of the display channel the engine     *)
(* sends completed frames into.                                             *)
(*                                                                          *)
(* The pixel engine is the record gpu, one field per field of struct GPU.   *)
(* MMU::run_cycle is modelled one loop iteration per step (pc says whether  *)
(* a call is in progress), because the loop of GPU::run_cycle need not      *)
(* finish and a frame send inside it can block on the channel.              *)
(***************************************************************************)
EXTENDS Integers, Sequences, FiniteSets, TLC

(***************************************************************************)
(* Bounds of the model.                                                     *)
(***************************************************************************)
\* Pixels per scanline kept by the model.  The program's Screen::WIDTH is
\* defined outside src/ (160 in the specification); the renderer's loop and
\* the frame buffer layout are modelled for any width.
ScreenWidth == 2
\* Frames the display channel holds before the model makes a send wait.
\* The sender's type (gpu.rs:22) is that of a bounded channel, whose capacity
\* is given where the channel is created; main.rs:37 creates the channel
\* with mpsc::channel(), which gives it none.
ChannelCapacity == 2
\* Cycle sums up to this many scanlines are tracked exactly by cycles_sum.
MaxTrackedLines == 4

(***************************************************************************)
(* Program constants.                                                       *)
(***************************************************************************)
CyclesPerLine == 114
LinesPerFrame == 154
VBlankLine == 144
VIDEO_RAM_SIZE == 8192
OAM_SIZE == 160
WRAM_SIZE == 8192
ZRAM_SIZE == 128

Byte == 0..255
ScreenHeight == VBlankLine
BufferSize == 3 * ScreenWidth * ScreenHeight

(***************************************************************************)
(* Bit operations on unsigned integers.                                     *)
(***************************************************************************)
\* The recursions are functions, so that an argument is computed once.
BitAndOf[a \in Nat, b \in Nat] ==
    IF a = 0 \/ b = 0 THEN 0
    ELSE (a % 2) * (b % 2) + 2 * BitAndOf[a \div 2, b \div 2]
BitAnd(a, b) == BitAndOf[a, b]

BitOrOf[a \in Nat, b \in Nat] ==
    IF a = 0 THEN b
    ELSE IF b = 0 THEN a
    ELSE (IF a % 2 = 1 \/ b % 2 = 1 THEN 1 ELSE 0) + 2 * BitOrOf[a \div 2, b \div 2]
BitOr(a, b) == BitOrOf[a, b]

\* F(e), with e computed once.
Bind(e, F(_)) == CHOOSE r \in {F(v) : v \in {e}} : TRUE

ShiftRight(a, k) == a \div (2 ^ k)

\* `x as u8`: truncation to 8 bits.
AsU8(x) == x % 256
\* `x as u16`, and u16 arithmetic in a release build: truncation to 16 bits.
AsU16(x) == x % 65536
\* `x as i8` of a byte: two's complement reading.
AsI8(x) == IF x >= 128 THEN x - 256 ELSE x

(***************************************************************************)
(* Sparse byte memories: a function whose domain is the set of indices      *)
(* holding a non-zero byte; every other index of the array reads 0.         *)
(***************************************************************************)
EmptyMem == [i \in {} |-> 0]
ReadMem(m, i) == IF i \in DOMAIN m THEN m[i] ELSE 0
WriteMem(m, i, v) ==
    IF v = 0
    THEN [j \in (DOMAIN m) \ {i} |-> m[j]]
    ELSE [j \in (DOMAIN m) \cup {i} |-> IF j = i THEN v ELSE m[j]]

(***************************************************************************)
(* The palette resolver.                                                    *)
(***************************************************************************)
color_from_dot_data(dot_data) ==
    CASE dot_data = 0  -> 255
      [] dot_data = 1  -> 192
      [] dot_data = 16 -> 96
      [] OTHER         -> 0

\* The four entries for colour ids 0..3 are elements 1..4 of the tuple.
build_palette_map(palette_layout) ==
    << color_from_dot_data(BitAnd(palette_layout, 17)),
       color_from_dot_data(BitAnd(ShiftRight(palette_layout, 2), 17)),
       color_from_dot_data(BitAnd(ShiftRight(palette_layout, 4), 17)),
       color_from_dot_data(ShiftRight(palette_layout, 6)) >>

(***************************************************************************)
(* The pixel engine: struct GPU and its methods, as operators on a record.  *)
(***************************************************************************)
GPU_new ==
    [ next_screen_buffer |-> [i \in 0..(BufferSize - 1) |-> 0],
      video_ram          |-> EmptyMem,
      bg_palette         |-> 0,
      obj_palette_0      |-> 0,
      obj_palette_1      |-> 0,
      bg_palette_map     |-> build_palette_map(0),
      oam                |-> EmptyMem,
      lcd_control        |-> \H91,
      stat               |-> 0,
      scy                |-> 0,
      scx                |-> 0,
      win_y              |-> 0,
      win_x              |-> 0,
      ly                 |-> 0,
      render_clock       |-> 0,
      interrupt          |-> 0 ]

\* Mutant of is_lcd_on: tests bit 0 instead of bit 7.
is_lcd_on_bit0(g) == BitAnd(g.lcd_control, 1) > 0

is_lcd_on(g) == BitAnd(g.lcd_control, 128) > 0

read_oam(g, addr) == ReadMem(g.oam, BitAnd(addr, 255))
write_oam(g, addr, value) ==
    [g EXCEPT !.oam = WriteMem(@, BitAnd(addr, 255), value)]

read_video_ram(g, addr) == ReadMem(g.video_ram, BitAnd(addr, VIDEO_RAM_SIZE - 1))
write_video_ram(g, addr, value) ==
    [g EXCEPT !.video_ram = WriteMem(@, BitAnd(addr, VIDEO_RAM_SIZE - 1), value)]
read_byte_video_ram(g, addr) == ReadMem(g.video_ram, BitAnd(addr, VIDEO_RAM_SIZE - 1))

\* The control registers read_control and write_control match without
\* panicking: FF40..FF4B less FF45 and the DMA address FF46.
ControlRegisters == (\HFF40..\HFF4B) \ {\HFF45, \HFF46}
read_control_panics(addr) == addr \notin ControlRegisters
write_control_panics(addr) == addr \notin ControlRegisters

read_control(g, addr) ==
    CASE addr = \HFF40 -> g.lcd_control
      [] addr = \HFF41 -> g.stat
      [] addr = \HFF42 -> g.scy
      [] addr = \HFF43 -> g.scx
      [] addr = \HFF44 -> g.ly
      [] addr = \HFF47 -> g.bg_palette
      [] addr = \HFF48 -> g.obj_palette_0
      [] addr = \HFF49 -> g.obj_palette_1
      [] addr = \HFF4A -> g.win_y
      [] addr = \HFF4B -> g.win_x

\* Mutant of write_bg_palette: stores the byte and keeps the old map.
write_bg_palette_stale(g, value) == [g EXCEPT !.bg_palette = value]

\* What a write to FF47 does to the engine.
write_bg_palette(g, value) ==
    [g EXCEPT !.bg_palette = value, !.bg_palette_map = build_palette_map(value)]

\* Mutant of write_ly: the write is stored like that of any other register.
write_ly_stores(g, value) == [g EXCEPT !.ly = value]

\* What a write to FF44 does to the engine: nothing (read only).
write_ly(g, value) == g

write_control(g, addr, value) ==
    CASE addr = \HFF40 -> [g EXCEPT !.lcd_control = value]
      [] addr = \HFF41 -> [g EXCEPT !.stat = value]
      [] addr = \HFF42 -> [g EXCEPT !.scy = value]
      [] addr = \HFF43 -> [g EXCEPT !.scx = value]
      [] addr = \HFF44 -> write_ly(g, value)
      [] addr = \HFF47 -> write_bg_palette(g, value)
      [] addr = \HFF48 -> [g EXCEPT !.obj_palette_0 = value]
      [] addr = \HFF49 -> [g EXCEPT !.obj_palette_1 = value]
      [] addr = \HFF4A -> [g EXCEPT !.win_y = value]
      [] addr = \HFF4B -> [g EXCEPT !.win_x = value]

bg_tile_data_addr(g) == IF BitAnd(g.lcd_control, 16) > 0 THEN \H8000 ELSE \H8800
bg_tile_map_addr(g) == IF BitAnd(g.lcd_control, 8) > 0 THEN \H9C00 ELSE \H9800

\* Mutant of tile_addr_of: the tile number is taken as unsigned in both modes.
tile_addr_of_unsigned(tile_data_addr, tile_number) ==
    AsU16(tile_data_addr + AsU16(tile_number * 16))

\* The tile-data address the renderer computes for a tile number, given the
\* tile-data base address (u16 arithmetic).
tile_addr_of(tile_data_addr, tile_number) ==
    LET tile_addr_offset ==
            IF tile_data_addr = \H8000
            THEN AsU16(tile_number * 16)
            ELSE AsU16(AsU16(AsI8(tile_number) + 128) * 16)
    IN  AsU16(tile_data_addr + tile_addr_offset)

\* The intensity render_background computes for column x of line g.ly.
pixel_color(g, x) ==
    LET bgy               == AsU8(g.scy + g.ly)
        bgy_tile          == ShiftRight(BitAnd(bgy, 255), 3)
        bgy_pixel_in_tile == BitAnd(bgy, 7)
        bgx               == g.scx + x
        bgx_tile          == ShiftRight(BitAnd(bgx, 255), 3)
        bgx_pixel_in_tile == BitAnd(bgx, 7)
        tile_number_addr  == AsU16(bg_tile_map_addr(g) + bgy_tile * 32 + bgx_tile)
        tile_number       == read_byte_video_ram(g, tile_number_addr)
        tile_addr         == tile_addr_of(bg_tile_data_addr(g), tile_number)
        tile_line_addr    == AsU16(tile_addr + bgy_pixel_in_tile * 2)
        tile_line_data_1  == read_byte_video_ram(g, tile_line_addr)
        tile_line_data_2  == read_byte_video_ram(g, AsU16(tile_line_addr + 1))
        pixel_in_line_mask == 2 ^ bgx_pixel_in_tile
        pixel_data_1 == IF BitAnd(tile_line_data_1, pixel_in_line_mask) > 0 THEN 1 ELSE 0
        pixel_data_2 == IF BitAnd(tile_line_data_2, pixel_in_line_mask) > 0 THEN 2 ELSE 0
        palette_color_id == BitOr(pixel_data_1, pixel_data_2)
    IN  g.bg_palette_map[palette_color_id + 1]

\* Mutant of set_pixel_color_next_screen_buffer: the pixel index is not
\* scaled by the three bytes of a pixel.
set_pixel_color_unscaled(g, x_pixel, color) ==
    LET base_addr == g.ly * ScreenWidth + x_pixel
    IN  [g EXCEPT !.next_screen_buffer =
            [@ EXCEPT ![base_addr] = color,
                      ![base_addr + 1] = color,
                      ![base_addr + 2] = color]]

set_pixel_color_next_screen_buffer(g, x_pixel, color) ==
    LET base_addr == (g.ly * ScreenWidth + x_pixel) * 3
    IN  [g EXCEPT !.next_screen_buffer =
            [@ EXCEPT ![base_addr] = color,
                      ![base_addr + 1] = color,
                      ![base_addr + 2] = color]]

\* The loop `for x in 0 .. Screen::WIDTH` of render_background, from column x.
RECURSIVE render_columns(_, _)
render_columns(g, x) ==
    IF x >= ScreenWidth THEN g
    ELSE Bind(Bind(pixel_color(g, x), LAMBDA color : set_pixel_color_next_screen_buffer(g, x, color)),
              LAMBDA h : render_columns(h, x + 1))

render_background(g) == IF g.ly >= VBlankLine THEN g ELSE render_columns(g, 0)

\* Mutant of next_line: the line register is not wrapped at the frame's end.
next_line_unwrapped(line) == AsU8(line + 1)

\* The line increment_line moves to.
next_line(line) == (line + 1) % LinesPerFrame

\* Mutant of marks_vblank_interrupt: marks one line late.
marks_vblank_interrupt_late(line) == line >= VBlankLine /\ line = VBlankLine + 1

\* Whether increment_line, having moved to `line`, marks the V-Blank interrupt.
marks_vblank_interrupt(line) == line >= VBlankLine /\ line = VBlankLine

\* Whether increment_line, having moved to `line`, calls render_screen.
calls_render_screen(line) == line >= VBlankLine

\* increment_line, less the call of render_screen (the channel is not part
\* of the record; see ProcessCycles).
increment_line(g) ==
    LET line == next_line(g.ly)
    IN  [g EXCEPT !.ly = line,
                  !.interrupt = IF marks_vblank_interrupt(line) THEN BitOr(@, 1) ELSE @]

\* Mutant of render_screen_frame: the frame sent is the engine's own buffer.
render_screen_frame_aliased(g) == [shared |-> TRUE, data |-> g.next_screen_buffer]

\* Mutant of render_screen_panics: the result of send is unwrapped.
render_screen_unwraps(alive) == ~alive

\* The frame render_screen sends: to_vec() copies the frame buffer, so the
\* frame shares no storage with the engine.
render_screen_frame(g) == [shared |-> FALSE, data |-> g.next_screen_buffer]

\* Whether render_screen panics: a failed send is matched and printed.
render_screen_panics(alive) == FALSE

\* process_cycles: whether the scanline is complete, the value returned,
\* and the engine afterwards.
line_complete(g, cycles) == g.render_clock + cycles >= CyclesPerLine

process_cycles_result(g, cycles) ==
    IF line_complete(g, cycles)
    THEN AsU8(g.render_clock + cycles - CyclesPerLine)
    ELSE AsU8(cycles)

process_cycles(g, cycles) ==
    IF line_complete(g, cycles)
    THEN Bind(increment_line([g EXCEPT !.render_clock = 0]), render_background)
    ELSE [g EXCEPT !.render_clock = @ + cycles]

(***************************************************************************)
(* The address bus: struct MMU and its methods, as operators on a record.   *)
(* The serial registers FF01..FF02 belong to Serial, which is not part of   *)
(* the modelled sources: no modelled access uses them.                      *)
(***************************************************************************)
MMU_new(cart_data) ==
    [ rom  |-> cart_data,
      wram |-> EmptyMem,
      zram |-> EmptyMem,
      gpu  |-> GPU_new ]

RomRange      == 0..\H7FFF
VideoRamRange == \H8000..\H9FFF
CartRamRange  == \HA000..\HBFFF
WramRange     == \HC000..\HFDFF
OamRange      == \HFE00..\HFE9F
SerialRange   == \HFF01..\HFF02
ControlRange  == \HFF40..\HFF4B
ZramRange     == \HFF80..\HFFFF

\* rom is a Vec of the cartridge's length, here a sequence: rom[addr] of the
\* code is element addr + 1, and an index at or beyond the length panics.
read_byte_panics(m, addr) ==
    \/ addr \in RomRange /\ addr >= Len(m.rom)
    \/ addr \in CartRamRange
    \/ addr \in ControlRange /\ read_control_panics(addr)

\* The arm `_ => 0` of read_byte: what an address outside every range reads.
read_unmapped(addr) == 0

read_byte(m, addr) ==
    CASE addr \in RomRange      -> m.rom[addr + 1]
      [] addr \in VideoRamRange -> read_video_ram(m.gpu, addr)
      [] addr \in WramRange     -> ReadMem(m.wram, BitAnd(addr, WRAM_SIZE - 1))
      [] addr \in OamRange      -> read_oam(m.gpu, addr)
      [] addr \in ControlRange  -> read_control(m.gpu, addr)
      [] addr \in ZramRange     -> ReadMem(m.zram, BitAnd(addr, ZRAM_SIZE - 1))
      [] OTHER                  -> read_unmapped(addr)

write_byte_panics(m, addr) ==
    \/ addr \in RomRange /\ addr >= Len(m.rom)
    \/ addr \in CartRamRange
    \/ addr \in ControlRange /\ write_control_panics(addr)

\* Mutant of write_unmapped: the write lands in zero-page RAM.
write_unmapped_aliased(m, addr, value) ==
    [m EXCEPT !.zram = WriteMem(@, BitAnd(addr, ZRAM_SIZE - 1), value)]

\* The arm `_ => ()` of write_byte: what a write outside every range does.
write_unmapped(m, addr, value) == m

write_byte(m, addr, value) ==
    CASE addr \in RomRange      -> [m EXCEPT !.rom[addr + 1] = value]
      [] addr \in VideoRamRange -> [m EXCEPT !.gpu = write_video_ram(@, addr, value)]
      [] addr \in WramRange     -> [m EXCEPT !.wram = WriteMem(@, BitAnd(addr, WRAM_SIZE - 1), value)]
      [] addr \in OamRange      -> [m EXCEPT !.gpu = write_oam(@, addr, value)]
      [] addr \in ControlRange  -> [m EXCEPT !.gpu = write_control(@, addr, value)]
      [] addr \in ZramRange     -> [m EXCEPT !.zram = WriteMem(@, BitAnd(addr, ZRAM_SIZE - 1), value)]
      [] OTHER                  -> write_unmapped(m, addr, value)

\* read_word: the byte at addr, then the byte at addr + 1.
read_word_panics(m, addr) == read_byte_panics(m, addr) \/ read_byte_panics(m, addr + 1)
read_word(m, addr) == BitOr(read_byte(m, addr), read_byte(m, addr + 1) * 256)

\* write_word: the low byte to addr, then the high byte to addr + 1.
word_low(value) == AsU8(BitAnd(value, 255))
\* Mutant of word_high: the high byte is taken without the shift.
word_high_unshifted(value) == AsU8(value)
word_high(value) == AsU8(ShiftRight(value, 8))
write_word_first_panics(m, addr) == write_byte_panics(m, addr)
write_word_panics(m, addr) == write_byte_panics(m, addr) \/ write_byte_panics(m, addr + 1)
write_word(m, addr, value) ==
    write_byte(write_byte(m, addr, word_low(value)), addr + 1, word_high(value))

(***************************************************************************)
(* State.                                                                   *)
(***************************************************************************)
VARIABLES
    mmu,                \* the MMU, with the GPU it owns
    channel,            \* frames sent on screen_data_sender and not yet received
    receiver_alive,     \* whether the receiving end of the channel still exists
    pc,                 \* "idle", or "run_cycle" while a call of run_cycle is in progress
    cycles_to_process,  \* the local variable of GPU::run_cycle
    crashed,            \* whether the emulation thread has panicked
    op,                 \* the last bus operation called: its name, address and value
    ret,                \* what the last read returned
    cycles_sum,         \* sum of the cycles passed to run_cycle since construction, -1 once untracked
    tile_number,        \* the tile number last resolved by ResolveTile
    tile_addr,          \* and the tile-data address the renderer computes for it
    entered,            \* the line and render clock at the last call of run_cycle
    received            \* the frame the presentation thread received last

vars == << mmu, channel, receiver_alive, pc, cycles_to_process, crashed, op, ret,
           cycles_sum, tile_number, tile_addr, entered, received >>

gpu == mmu.gpu

NoOp == [name |-> "none", addr |-> 0, value |-> 0]
Op(name, addr, value) == [name |-> name, addr |-> addr, value |-> value]

\* No call of run_cycle yet.
NotEntered == [lcd_on |-> FALSE, line |-> 0, clock |-> 0]
\* No frame received yet.
NoFrame == [shared |-> FALSE, data |-> << >>]

\* The cartridge image the bus is constructed over.
CartImage == << 0, 1 >>

Init ==
    /\ mmu = MMU_new(CartImage)
    /\ channel = << >>
    /\ receiver_alive = TRUE
    /\ pc = "idle"
    /\ cycles_to_process = 0
    /\ crashed = FALSE
    /\ op = NoOp
    /\ ret = 0
    /\ cycles_sum = 0
    /\ tile_number = 0
    /\ tile_addr = 0
    /\ entered = NotEntered
    /\ received = NoFrame

(***************************************************************************)
(* Inputs.                                                                  *)
(***************************************************************************)
\* Cycle counts passed to run_cycle: none, half a scanline, a whole scanline,
\* and the largest u8.
CycleInputs == {0, 57, 114, 255}
\* Register writes: display on and off, the palette, the current-line register.
RegisterWrites ==
    { << \HFF40, \H91 >>, << \HFF40, \H11 >>,
      << \HFF47, \HE4 >>, << \HFF47, \H00 >>,
      << \HFF44, \H99 >> }

(***************************************************************************)
(* MMU::run_cycle -> GPU::run_cycle.                                        *)
(***************************************************************************)
\* cycles_sum after a call with `cycles`: exact while the display has been on
\* at every call and the sum is within MaxTrackedLines scanlines.
track_cycles(sum, lcd_on, cycles) ==
    IF sum >= 0 /\ lcd_on /\ sum + cycles <= MaxTrackedLines * CyclesPerLine
    THEN sum + cycles
    ELSE -1

\* The call: returns at once when the display is off, otherwise enters the loop.
RunCycle(cycles) ==
    /\ pc = "idle"
    /\ ~crashed
    /\ op' = Op("run_cycle", 0, cycles)
    /\ cycles_sum' = track_cycles(cycles_sum, BitAnd(gpu.lcd_control, 128) > 0, cycles)
    /\ IF ~is_lcd_on(gpu)
       THEN UNCHANGED << pc, cycles_to_process >>
       ELSE /\ pc' = "run_cycle"
            /\ cycles_to_process' = cycles
    /\ entered' = [lcd_on |-> is_lcd_on(gpu), line |-> gpu.ly, clock |-> gpu.render_clock]
    /\ UNCHANGED << mmu, channel, receiver_alive, crashed, ret, tile_number, tile_addr,
                    received >>

\* One iteration of `while cycles_to_process > 0`.  When the iteration
\* completes a scanline that lies in V-Blank, render_screen sends a copy of
\* the frame buffer: the send waits while the channel is full, and fails
\* (a message is printed) when the receiver is gone.
\* Whether the next loop iteration sends a frame.
iteration_sends(g, cycles) ==
    line_complete(g, cycles) /\ calls_render_screen(next_line(g.ly))

ProcessCycles ==
    /\ pc = "run_cycle"
    /\ ~crashed
    /\ cycles_to_process > 0
    /\ ~(iteration_sends(gpu, cycles_to_process) /\ receiver_alive /\ Len(channel) >= ChannelCapacity)
    /\ mmu' = [mmu EXCEPT !.gpu = process_cycles(gpu, cycles_to_process)]
    /\ channel' = IF iteration_sends(gpu, cycles_to_process) /\ receiver_alive
                  THEN Append(channel, render_screen_frame(increment_line(gpu)))
                  ELSE channel
    /\ cycles_to_process' = cycles_to_process - process_cycles_result(gpu, cycles_to_process)
    /\ crashed' = (iteration_sends(gpu, cycles_to_process) /\ render_screen_panics(receiver_alive))
    /\ UNCHANGED << receiver_alive, pc, op, ret, cycles_sum, tile_number, tile_addr,
                    entered, received >>

\* The loop ends and run_cycle returns.
RunCycleReturn ==
    /\ pc = "run_cycle"
    /\ ~crashed
    /\ cycles_to_process = 0
    /\ pc' = "idle"
    /\ UNCHANGED << mmu, channel, receiver_alive, cycles_to_process, crashed, op, ret,
                    cycles_sum, tile_number, tile_addr,
                    entered, received >>

(***************************************************************************)
(* Bus accesses, made by the emulation thread between calls of run_cycle.   *)
(***************************************************************************)
WriteByte(addr, value) ==
    /\ pc = "idle"
    /\ ~crashed
    /\ addr \notin SerialRange
    /\ op' = Op("write_byte", addr, value)
    /\ IF write_byte_panics(mmu, addr)
       THEN crashed' = TRUE /\ UNCHANGED mmu
       ELSE mmu' = write_byte(mmu, addr, value) /\ UNCHANGED crashed
    /\ UNCHANGED << channel, receiver_alive, pc, cycles_to_process, ret, cycles_sum,
                    tile_number, tile_addr,
                    entered, received >>

ReadByte(addr) ==
    /\ pc = "idle"
    /\ ~crashed
    /\ addr \notin SerialRange
    /\ op' = Op("read_byte", addr, 0)
    /\ IF read_byte_panics(mmu, addr)
       THEN crashed' = TRUE /\ UNCHANGED ret
       ELSE ret' = read_byte(mmu, addr) /\ UNCHANGED crashed
    /\ UNCHANGED << mmu, channel, receiver_alive, pc, cycles_to_process, cycles_sum,
                    tile_number, tile_addr,
                    entered, received >>

WriteWord(addr, value) ==
    /\ pc = "idle"
    /\ ~crashed
    /\ addr \notin SerialRange /\ (addr + 1) \notin SerialRange
    /\ op' = Op("write_word", addr, value)
    /\ IF write_word_first_panics(mmu, addr)
       THEN crashed' = TRUE /\ UNCHANGED mmu
       ELSE IF write_word_panics(mmu, addr)
       THEN crashed' = TRUE /\ mmu' = write_byte(mmu, addr, word_low(value))
       ELSE mmu' = write_word(mmu, addr, value) /\ UNCHANGED crashed
    /\ UNCHANGED << channel, receiver_alive, pc, cycles_to_process, ret, cycles_sum,
                    tile_number, tile_addr,
                    entered, received >>

ReadWord(addr) ==
    /\ pc = "idle"
    /\ ~crashed
    /\ addr \notin SerialRange /\ (addr + 1) \notin SerialRange
    /\ op' = Op("read_word", addr, 0)
    /\ IF read_word_panics(mmu, addr)
       THEN crashed' = TRUE /\ UNCHANGED ret
       ELSE ret' = read_word(mmu, addr) /\ UNCHANGED crashed
    /\ UNCHANGED << mmu, channel, receiver_alive, pc, cycles_to_process, cycles_sum,
                    tile_number, tile_addr,
                    entered, received >>

(***************************************************************************)
(* The presentation thread.                                                 *)
(***************************************************************************)
Receive ==
    /\ receiver_alive
    /\ channel # << >>
    /\ channel' = Tail(channel)
    /\ received' = Head(channel)
    /\ UNCHANGED << mmu, receiver_alive, pc, cycles_to_process, crashed, op, ret,
                    cycles_sum, tile_number, tile_addr, entered >>

\* The receiver is dropped, and with it the frame it holds and the frames
\* still in the channel.
ReceiverDisconnect ==
    /\ receiver_alive
    /\ receiver_alive' = FALSE
    /\ channel' = << >>
    /\ received' = NoFrame
    /\ UNCHANGED << mmu, pc, cycles_to_process, crashed, op, ret, cycles_sum,
                    tile_number, tile_addr, entered >>

(***************************************************************************)
(* The emulator: cycles, register writes, and the presentation thread.      *)
(***************************************************************************)
Next ==
    \/ \E cycles \in CycleInputs : RunCycle(cycles)
    \/ ProcessCycles
    \/ RunCycleReturn
    \/ \E w \in RegisterWrites : WriteByte(w[1], w[2])
    \/ Receive
    \/ ReceiverDisconnect

Spec == Init /\ [][Next]_vars

\* The scheduling the program gives: a running loop keeps iterating and
\* returns when its condition fails, and the presentation thread keeps
\* receiving while frames are waiting.
FairSpec ==
    /\ Spec
    /\ WF_vars(ProcessCycles)
    /\ WF_vars(RunCycleReturn)
    /\ WF_vars(Receive)

(***************************************************************************)
(* Properties.                                                              *)
(***************************************************************************)
LcdBit7Set == BitAnd(gpu.lcd_control, 128) = 128
VBlankBit == BitAnd(gpu.interrupt, 1)

\* C1: with the display on at every call and starting from construction
\* (line 0, render clock 0), once calls of run_cycle whose cycle counts sum
\* to a multiple of 114 have returned, the current line is sum / 114 modulo 154.
C1_LinesFollowCycleSum ==
    (pc = "idle" /\ cycles_sum >= 0 /\ cycles_sum % CyclesPerLine = 0)
        => gpu.ly = (cycles_sum \div CyclesPerLine) % LinesPerFrame

\* C2: every call of run_cycle that has entered its loop returns, given that
\* the presentation thread keeps receiving or has disconnected.
C2_RunCycleReturns == (pc = "run_cycle") ~> (pc = "idle")

\* C3: while the receiver exists, a step sends a frame into the display
\* channel if and only if it moves the current line to 144.
C3_FrameIffVBlankEntry ==
    [][receiver_alive =>
        ((Len(channel') = Len(channel) + 1) <=> (gpu.ly # VBlankLine /\ gpu'.ly = VBlankLine))]_vars

\* C4: a step that moves the current line to 144 leaves bit 0 of the
\* interrupt flag set; the interrupt flag changes in no other step, that step
\* only sets bit 0, and no step clears the bit.
C4_VBlankInterrupt ==
    [][/\ (gpu.ly # VBlankLine /\ gpu'.ly = VBlankLine) => BitAnd(gpu'.interrupt, 1) = 1
       /\ (gpu'.interrupt # gpu.interrupt)
            => /\ gpu.ly = VBlankLine - 1
               /\ gpu'.ly = VBlankLine
               /\ pc = "run_cycle"
               /\ gpu'.interrupt = BitOr(gpu.interrupt, 1)
       /\ (VBlankBit = 1) => BitAnd(gpu'.interrupt, 1) = 1]_vars

\* The engine has entered line 144 for the first time and holds the interrupt.
C4_Witness == gpu.ly = VBlankLine /\ VBlankBit = 1 /\ pc = "run_cycle"

\* C5: a call of run_cycle made while LCD-control bit 7 is clear returns at
\* once and changes nothing: not the bus or the engine (line, render clock,
\* interrupt flag, frame buffer), and no frame is sent.
C5_LcdOffNoOp ==
    [][((\E cycles \in CycleInputs : RunCycle(cycles)) /\ ~LcdBit7Set)
        => (mmu' = mmu /\ channel' = channel /\ pc' = "idle" /\ crashed' = crashed)]_vars

\* run_cycle(255) was called mid-frame with the display off, and has returned.
C5_Witness ==
    /\ op = Op("run_cycle", 0, 255)
    /\ pc = "idle"
    /\ ~LcdBit7Set
    /\ gpu.ly = 100
    /\ gpu.render_clock = 57

\* The palette map of the specification: entry i is T[(P >> 2i) & 3].
PaletteTable(group) ==
    CASE group = 0 -> 255
      [] group = 1 -> 192
      [] group = 2 -> 96
      [] group = 3 -> 0
ExpectedPaletteMap(P) ==
    << PaletteTable(ShiftRight(P, 0) % 4), PaletteTable(ShiftRight(P, 2) % 4),
       PaletteTable(ShiftRight(P, 4) % 4), PaletteTable(ShiftRight(P, 6) % 4) >>

\* C6: the palette map computed from the palette byte P has entry i equal to
\* T[(P >> 2i) & 3], T = {0 -> 255, 1 -> 192, 2 -> 96, 3 -> 0}; so after a
\* write of 0b11100100 to FF47 the map is [255, 192, 96, 0].
C6_PaletteMapMatchesTable ==
    /\ gpu.bg_palette_map = ExpectedPaletteMap(gpu.bg_palette)
    /\ gpu.bg_palette = \HE4 => gpu.bg_palette_map = << 255, 192, 96, 0 >>

\* C7: in every state the cached palette map is what build_palette_map gives
\* for the current background palette register, and only a write to FF47
\* changes the map.
C7_PaletteMapInSync ==
    /\ [](gpu.bg_palette_map = build_palette_map(gpu.bg_palette))
    /\ [][(gpu'.bg_palette_map # gpu.bg_palette_map)
            => (pc = "idle" /\ op'.name = "write_byte" /\ op'.addr = \HFF47)]_vars

\* The palette was written mid-frame and lines have been rendered since.
C7_Witness ==
    /\ gpu.bg_palette = \HE4
    /\ gpu.bg_palette_map = << 255, 0, 255, 0 >>
    /\ gpu.ly = 20
    /\ op.name = "run_cycle"

\* C8: a write to the current-line register FF44 changes nothing in the bus
\* or the engine, so FF44 reads the same before and after; the current line
\* changes only in a loop iteration of run_cycle.
C8_LyReadOnly ==
    /\ [][(\E w \in RegisterWrites : w[1] = \HFF44 /\ WriteByte(w[1], w[2]))
            => (mmu' = mmu /\ read_byte(mmu', \HFF44) = read_byte(mmu, \HFF44) /\ ~crashed')]_vars
    /\ [][(gpu'.ly # gpu.ly) => (pc = "run_cycle" /\ pc' = "run_cycle")]_vars

\* FF44 was written at line 100 and still reads 100.
C8_Witness ==
    /\ op = Op("write_byte", \HFF44, \H99)
    /\ gpu.ly = 100
    /\ read_byte(mmu, \HFF44) = 100
    /\ ~crashed

(***************************************************************************)
(* Word accesses on the bus.                                                *)
(***************************************************************************)
\* Word addresses tried: ROM inside the two-byte image, video RAM, working
\* RAM, the last sprite-table pair, zero-page RAM, the LCD-control and status
\* pair, and the unmapped FEA0.  None of them panics.
WordAddrs ==
    { \H0000, \H8000, \HC000, \HFE9E, \HFF80, \HFF40, \HFEA0 }
WordValues == { \H1234, \HABCD }

NextWord ==
    \/ \E addr \in WordAddrs, value \in WordValues : WriteWord(addr, value)
    \/ \E addr \in WordAddrs : ReadWord(addr)

SpecWord == Init /\ [][NextWord]_vars

\* C9 as claimed: after write_word(a, v) at any even address a, read_word(a)
\* returns v, read_byte(a) the low byte of v and read_byte(a + 1) the high byte.
C9_WordRoundTripAnywhere ==
    (op.name = "write_word" /\ op.addr % 2 = 0)
        => /\ ~crashed
           /\ ~read_word_panics(mmu, op.addr)
           /\ read_word(mmu, op.addr) = op.value
           /\ read_byte(mmu, op.addr) = op.value % 256
           /\ read_byte(mmu, op.addr + 1) = op.value \div 256

\* Addresses backed by storage that keeps what is written: ROM below the
\* image length, video RAM, working RAM, the sprite table, zero-page RAM,
\* and the control registers other than the current-line register.
StoredAddress(addr) ==
    \/ addr \in RomRange /\ addr < Len(mmu.rom)
    \/ addr \in VideoRamRange
    \/ addr \in WramRange
    \/ addr \in OamRange
    \/ addr \in ZramRange
    \/ addr \in \HFF40..\HFF43
    \/ addr \in \HFF47..\HFF4B

\* C9, amended: the round trip holds at every even address a such that a and
\* a + 1 are both backed by storage that keeps what is written.
C9_WordRoundTripStored ==
    (op.name = "write_word" /\ op.addr % 2 = 0
        /\ StoredAddress(op.addr) /\ StoredAddress(op.addr + 1))
        => /\ ~crashed
           /\ ~read_word_panics(mmu, op.addr)
           /\ read_word(mmu, op.addr) = op.value
           /\ read_byte(mmu, op.addr) = op.value % 256
           /\ read_byte(mmu, op.addr + 1) = op.value \div 256

\* 0xABCD was written to working RAM at C000 over an earlier 0x1234.
C9_Witness ==
    /\ op = Op("write_word", \HC000, \HABCD)
    /\ read_word(mmu, \HC000) = \HABCD
    /\ read_word(mmu, \H8000) = \H1234
    /\ ~crashed

(***************************************************************************)
(* Tile-data addressing, as render_background resolves it.                  *)
(***************************************************************************)
\* The renderer resolves a tile number under the current LCD control.
ResolveTile(number) ==
    /\ pc = "idle"
    /\ ~crashed
    /\ op' = Op("resolve_tile", 0, number)
    /\ tile_number' = number
    /\ tile_addr' = tile_addr_of(bg_tile_data_addr(gpu), number)
    /\ UNCHANGED << mmu, channel, receiver_alive, pc, cycles_to_process, crashed, ret,
                    cycles_sum, entered, received >>

\* LCD control with tile data at 8000 (bit 4 set) and at 8800 (bit 4 clear).
TileModeWrites == { << \HFF40, \H91 >>, << \HFF40, \H81 >> }

NextTile ==
    \/ \E w \in TileModeWrites : WriteByte(w[1], w[2])
    \/ \E number \in Byte : ResolveTile(number)

SpecTile == Init /\ [][NextTile]_vars

Signed8(i) == IF i < 128 THEN i ELSE i - 256

\* C10: the tile-data address of tile number i is 0x8000 + 16 * i when
\* LCD-control bit 4 is set, and 0x8800 + 16 * (signed8(i) + 128), inside
\* 0x8800..0x97FF, when it is clear; so 0 -> 0x8000 and 255 -> 0x8FF0 in the
\* first mode, 0 -> 0x9000 and 128 -> 0x8800 in the second.
C10_TileDataAddress ==
    (op.name = "resolve_tile") =>
        IF BitAnd(gpu.lcd_control, 16) = 16
        THEN /\ tile_addr = \H8000 + 16 * tile_number
             /\ tile_number = 0 => tile_addr = \H8000
             /\ tile_number = 255 => tile_addr = \H8FF0
        ELSE /\ tile_addr = \H8800 + 16 * (Signed8(tile_number) + 128)
             /\ tile_addr \in \H8800..\H97FF
             /\ tile_number = 0 => tile_addr = \H9000
             /\ tile_number = 128 => tile_addr = \H8800

\* Tile 128 was resolved in the 8800 mode.
C10_Witness ==
    /\ op = Op("resolve_tile", 0, 128)
    /\ BitAnd(gpu.lcd_control, 16) = 0
    /\ tile_addr = \H8800

(***************************************************************************)
(* Byte accesses on the bus, over several cartridge images.                 *)
(***************************************************************************)
\* Cartridge images: empty, the two-byte image, and a three-byte image.
CartImages == { << >>, << 0, 1 >>, << 7, 8, 9 >> }

InitBus ==
    /\ mmu \in { MMU_new(image) : image \in CartImages }
    /\ channel = << >>
    /\ receiver_alive = TRUE
    /\ pc = "idle"
    /\ cycles_to_process = 0
    /\ crashed = FALSE
    /\ op = NoOp
    /\ ret = 0
    /\ cycles_sum = 0
    /\ tile_number = 0
    /\ tile_addr = 0
    /\ entered = NotEntered
    /\ received = NoFrame

\* Byte addresses tried: ROM at the start and at the end of its range, the
\* two ends of cartridge RAM, working RAM, the addresses around each
\* unmapped range, the display registers the engine does not own (FF45,
\* FF46) and one it owns, and zero-page RAM.
BusAddrs ==
    { \H0000, \H0001, \H0002, \H7FFF, \HA000, \HBFFF, \HC000,
      \HFEA0, \HFEFF, \HFF00, \HFF03, \HFF3F, \HFF4C, \HFF7F,
      \HFF43, \HFF45, \HFF46, \HFF80 }
BusValues == { \H42 }

\* The addresses outside every range of read_byte and write_byte.
Unmapped(addr) ==
    \/ addr \in \HFEA0..\HFEFF
    \/ addr = \HFF00
    \/ addr \in \HFF03..\HFF3F
    \/ addr \in \HFF4C..\HFF7F

NextBus ==
    \/ \E addr \in BusAddrs, value \in BusValues : WriteByte(addr, value)
    \/ \E addr \in BusAddrs : ReadByte(addr)

SpecBus == InitBus /\ [][NextBus]_vars

ByteAccess == op.name \in {"read_byte", "write_byte"}

\* C11: a read or write at a display-block address the engine does not own
\* (FF45, FF46) is reported to the caller and does not panic the process.
C11_UnownedRegisterNoPanic ==
    (ByteAccess /\ op.addr \in {\HFF45, \HFF46}) => ~crashed

\* C12: a read or write at a cartridge-RAM address A000..BFFF is reported to
\* the caller and does not panic the process.
C12_CartRamNoPanic ==
    (ByteAccess /\ op.addr \in CartRamRange) => ~crashed

\* C13: a read at an address outside every dispatch range returns the fixed
\* constant 0 and changes nothing; a write there changes nothing; neither
\* panics.
C13_UnmappedFallback ==
    [][(op'.name \in {"read_byte", "write_byte"} /\ Unmapped(op'.addr))
        => /\ mmu' = mmu
           /\ ~crashed'
           /\ channel' = channel
           /\ op'.name = "read_byte" => ret' = 0]_vars

\* FF7F was written after zero-page RAM and working RAM had been written;
\* both still hold their bytes and FF7F reads 0.
C13_Witness ==
    /\ op = Op("write_byte", \HFF7F, \H42)
    /\ read_byte(mmu, \HFF80) = \H42
    /\ read_byte(mmu, \HC000) = \H42
    /\ read_byte(mmu, \HFF7F) = 0
    /\ ~crashed

\* C20: for every cartridge image a read or write in the ROM range 0000..7FFF
\* does not panic the process, and a read below the image length returns
\* the image byte (as last written) at that index.
C20_RomAccessNoPanic ==
    (ByteAccess /\ op.addr \in RomRange)
        => /\ ~crashed
           /\ (op.name = "read_byte" /\ op.addr < Len(mmu.rom)) => ret = mmu.rom[op.addr + 1]

(***************************************************************************)
(* The display channel and the scanline counter, under Spec.                *)
(***************************************************************************)
\* C14: the frames sent and not yet received never exceed the channel's
\* single slot (a send into a full channel waits, so the emulation thread
\* advances no line and sends no frame until the receiver drains it), and
\* frames are received in the order sent.
C14_SingleSlotBackpressure == Len(channel) <= 1

frame_bytes(g, f) == IF f.shared THEN g.next_screen_buffer ELSE f.data

\* C16: the bytes of a frame that has been sent, as read from the channel or
\* by the receiver, are the same after every step of the emulation thread and
\* of the presentation thread.
C16_SentFramesImmutable ==
    [][/\ Len(channel') >= Len(channel)
            => \A i \in 1..Len(channel) :
                  frame_bytes(gpu', channel'[i]) = frame_bytes(gpu, channel[i])
       /\ (receiver_alive' /\ Len(channel') < Len(channel))
            => /\ frame_bytes(gpu', received') = frame_bytes(gpu, channel[1])
               /\ \A i \in 1..Len(channel') :
                     frame_bytes(gpu', channel'[i]) = frame_bytes(gpu, channel[i + 1])
       /\ (receiver_alive' /\ Len(channel') >= Len(channel))
            => frame_bytes(gpu', received') = frame_bytes(gpu, received)]_vars

\* The receiver holds a frame and another waits in the channel, and the
\* engine has drawn into its buffer since both were sent.
C16_Witness ==
    /\ received # NoFrame
    /\ Len(channel) >= 1
    /\ received.data # gpu.next_screen_buffer
    /\ channel[1].data # gpu.next_screen_buffer

\* C17: a call run_cycle(n) made with the display on at line L and render
\* clock r returns with render clock (r + n) mod 114 and line
\* (L + (r + n) div 114) mod 154.
C17_SingleCallArithmetic ==
    (pc = "idle" /\ op.name = "run_cycle" /\ entered.lcd_on /\ ~crashed)
        => /\ gpu.render_clock = (entered.clock + op.value) % CyclesPerLine
           /\ gpu.ly = (entered.line + (entered.clock + op.value) \div CyclesPerLine) % LinesPerFrame

\* C19: the engine starts at line 0 with render clock 0; the line stays in
\* 0..153 and the render clock in 0..113; the line changes only to its
\* successor modulo 154 (so 153 is followed by 0); a step draws into the
\* frame buffer only on landing in 0..143 (Scanning) and sends a frame only
\* on landing in 144..153 (V-Blank).
C19_LineAndClockRanges ==
    /\ gpu.ly = 0 /\ gpu.render_clock = 0
    /\ [](gpu.ly \in 0..(LinesPerFrame - 1) /\ gpu.render_clock \in 0..(CyclesPerLine - 1))
    /\ [][/\ gpu'.ly # gpu.ly => gpu'.ly = (gpu.ly + 1) % LinesPerFrame
          /\ gpu'.next_screen_buffer # gpu.next_screen_buffer
                => (gpu'.ly # gpu.ly /\ gpu'.ly \in 0..(VBlankLine - 1))
          /\ Len(channel') > Len(channel)
                => (gpu'.ly # gpu.ly /\ gpu'.ly \in VBlankLine..(LinesPerFrame - 1))]_vars

\* The line has wrapped from 153 to 0 after a V-Blank, between two calls.
C19_Witness ==
    /\ pc = "idle"
    /\ gpu.ly = 0
    /\ entered.line = LinesPerFrame - 1
    /\ VBlankBit = 1

(***************************************************************************)
(* Rendering with tile data and palettes that give different intensities.   *)
(* The tile map is zero, so with the initial lcd_control every pixel comes   *)
(* from tile 0 at 8000: byte 8000 is bit plane 1 of the tile's line 0 (rows  *)
(* 0, 8, 16, ..), whose bit 0 gives column 0 the colour id 1.                *)
(* Palette 14 maps colour id 0 to intensity 96 and id 1 to 192;              *)
(* the initial palette 00 maps every id to 255.                              *)
(* Writes are made only while the line is at most MaxWriteLine, so that the  *)
(* rows of a frame do not each vary on their own.                            *)
(***************************************************************************)
MaxWriteLine == 1

RenderWrites ==
    { << \H8000, \H01 >>, << \HFF47, \H14 >> }
RenderCycles == 57

RenderWrite(addr, value) ==
    /\ gpu.ly <= MaxWriteLine
    /\ WriteByte(addr, value)

NextRender ==
    \/ \E w \in RenderWrites : RenderWrite(w[1], w[2])
    \/ RunCycle(RenderCycles)
    \/ ProcessCycles
    \/ RunCycleReturn
    \/ Receive

SpecRender == Init /\ [][NextRender]_vars

Intensities == { 255, 192, 96, 0 }

\* C18: a step that moves the line to Y in 0..143 leaves every byte outside
\* row Y as it was and writes each pixel of row Y with the intensity the
\* renderer computes, the same in its three channel bytes; a step that moves
\* the line to 144..153 changes no byte of the frame buffer.
C18_LineAdvanceWritesOneRow ==
    [][gpu'.ly # gpu.ly =>
        IF gpu'.ly < ScreenHeight
        THEN /\ \A i \in 0..(BufferSize - 1) :
                  (i \div (3 * ScreenWidth) # gpu'.ly)
                      => gpu'.next_screen_buffer[i] = gpu.next_screen_buffer[i]
             /\ \A x \in 0..(ScreenWidth - 1) :
                  /\ gpu'.next_screen_buffer[(gpu'.ly * ScreenWidth + x) * 3] \in Intensities
                  /\ gpu'.next_screen_buffer[(gpu'.ly * ScreenWidth + x) * 3]
                        = pixel_color([gpu EXCEPT !.ly = gpu'.ly], x)
                  /\ gpu'.next_screen_buffer[(gpu'.ly * ScreenWidth + x) * 3 + 1]
                        = gpu'.next_screen_buffer[(gpu'.ly * ScreenWidth + x) * 3]
                  /\ gpu'.next_screen_buffer[(gpu'.ly * ScreenWidth + x) * 3 + 2]
                        = gpu'.next_screen_buffer[(gpu'.ly * ScreenWidth + x) * 3]
        ELSE gpu'.next_screen_buffer = gpu.next_screen_buffer]_vars

\* In V-Blank of a later frame: row 8 was drawn with intensities 192, 96,
\* row 9 with 96, 96, and row 0, drawn when the line wrapped, with 192, 96;
\* a frame has been received.
C18_Witness ==
    /\ gpu.ly = VBlankLine + 1
    /\ received # NoFrame
    /\ gpu.next_screen_buffer[(8 * ScreenWidth) * 3] = 192
    /\ gpu.next_screen_buffer[(8 * ScreenWidth + 1) * 3] = 96
    /\ gpu.next_screen_buffer[(9 * ScreenWidth) * 3] = 96
    /\ gpu.next_screen_buffer[(9 * ScreenWidth + 1) * 3 + 2] = 96
    /\ gpu.next_screen_buffer[0] = 192
    /\ gpu.next_screen_buffer[5] = 96

====
